---- MODULE Spec2Model ----
(***************************************************************************)
(* Model of the C "sum of five positive numbers" auto-grader               *)
(* (src/script.js): the click handler handleRunTests, the execution        *)
(* adapter runCProgram, the orchestrator runAllTests, the output           *)
(* interpreter extractSumFromOutput, the judge compareSums, the scorer     *)
(* calculateScore and the feedback synthesizer generateFeedback.           *)
(*                                                                         *)
(* A JavaScript string that the code inspects character by character       *)
(* (stdout, the submitted source, a stdin script) is a sequence of         *)
(* one-character strings.  A value that may be null is a sequence of       *)
(* length 0 (null) or 1 (the value).                                       *)
(***************************************************************************)
EXTENDS Integers, Sequences, FiniteSets, TLC

\* ------------------------------------------------------------------------
\* Bounds of the model
\* ------------------------------------------------------------------------

\* Clicks on the run control that one behaviour explores.
MaxClicks == 2

\* Longest stdout text enumerated for the output interpreter.
MaxLen == 4

\* ------------------------------------------------------------------------
\* Characters
\* ------------------------------------------------------------------------

Digits == {"0", "1", "2", "3", "4", "5", "6", "7", "8", "9"}

Letters ==
    {"a", "b", "c", "d", "e", "f", "g", "h", "i", "j", "k", "l", "m",
     "n", "o", "p", "q", "r", "s", "t", "u", "v", "w", "x", "y", "z"}

\* \d of a JavaScript regular expression
IsDigit(c) == c \in Digits

\* \s of a JavaScript regular expression (the white space the texts use)
IsSpace(c) == c \in {" ", "\n", "\t"}

\* \w of a JavaScript regular expression
IsWordChar(c) == c \in (Letters \cup Digits \cup {"_"})

DigitVal(c) ==
    CASE c = "0" -> 0 [] c = "1" -> 1 [] c = "2" -> 2 [] c = "3" -> 3
      [] c = "4" -> 4 [] c = "5" -> 5 [] c = "6" -> 6 [] c = "7" -> 7
      [] c = "8" -> 8 [] c = "9" -> 9

Null == <<>>

Some(v) == <<v>>

\* ------------------------------------------------------------------------
\* Output interpreter: extractSumFromOutput
\* ------------------------------------------------------------------------

RECURSIVE DigitRunEnd(_, _)
\* The index just past the greedy run \d+ that starts at i.
DigitRunEnd(s, i) ==
    IF i <= Len(s) /\ IsDigit(s[i]) THEN DigitRunEnd(s, i + 1) ELSE i

RECURSIVE matchAll(_, _)
\* stdout.match(/-?\d+/g): the leftmost matches, each as long as it can be,
\* the scan resuming right after a match.
matchAll(s, i) ==
    IF i > Len(s) THEN <<>>
    ELSE IF s[i] = "-" /\ i + 1 <= Len(s) /\ IsDigit(s[i + 1])
         THEN <<SubSeq(s, i, DigitRunEnd(s, i + 1) - 1)>>
                  \o matchAll(s, DigitRunEnd(s, i + 1))
    ELSE IF IsDigit(s[i])
         THEN <<SubSeq(s, i, DigitRunEnd(s, i) - 1)>>
                  \o matchAll(s, DigitRunEnd(s, i))
    ELSE matchAll(s, i + 1)

RECURSIVE parseDigits(_, _, _)
\* The digits of m from i on, accumulated in base 10 until a non-digit.
parseDigits(m, i, acc) ==
    IF i <= Len(m) /\ IsDigit(m[i])
    THEN parseDigits(m, i + 1, acc * 10 + DigitVal(m[i]))
    ELSE acc

\* parseInt(m, 10): an optional sign, then digits; NaN (here Null) when no
\* digit follows.
parseInt(m) ==
    LET neg == Len(m) > 0 /\ m[1] = "-"
        start == IF neg THEN 2 ELSE 1
    IN  IF start > Len(m) \/ ~IsDigit(m[start]) THEN Null
        ELSE IF neg THEN Some(0 - parseDigits(m, start, 0))
        ELSE Some(parseDigits(m, start, 0))

RECURSIVE parsedNumbers(_)
\* matches.map(m => parseInt(m, 10)).filter(n => !Number.isNaN(n))
parsedNumbers(matches) ==
    IF matches = <<>> THEN <<>>
    ELSE (IF parseInt(Head(matches)) # Null THEN parseInt(Head(matches)) ELSE <<>>)
             \o parsedNumbers(Tail(matches))

\* Variant: the first number is taken as the sum instead of the last.
extractSumFromOutput_FirstNumber(stdout) ==
    IF stdout = <<>> THEN [sum |-> Null, allNumbers |-> <<>>]
    ELSE
        LET numbers == parsedNumbers(matchAll(stdout, 1))
        IN  IF Len(numbers) = 0 THEN [sum |-> Null, allNumbers |-> <<>>]
            ELSE [sum |-> Some(numbers[1]), allNumbers |-> numbers]

extractSumFromOutput(stdout) ==
    IF stdout = <<>> THEN [sum |-> Null, allNumbers |-> <<>>]
    ELSE
        LET numbers == parsedNumbers(matchAll(stdout, 1))
        IN  IF Len(numbers) = 0 THEN [sum |-> Null, allNumbers |-> <<>>]
            ELSE [sum |-> Some(numbers[Len(numbers)]), allNumbers |-> numbers]

\* ------------------------------------------------------------------------
\* Judge: compareSums.  A note (and any text shown in its place) is a tuple
\* of its parts; the wrong-sum note carries the two numbers its text
\* interpolates.
\* ------------------------------------------------------------------------

NoteNoNumber == <<"NoFinalNumber">>

NoteWrongSum(expected, got) == <<"WrongSum", expected, got>>

NotePassed == <<"Passed">>

compareSums(expectedSum, parseResult) ==
    IF parseResult.sum = Null
    THEN [passed |-> FALSE, notes |-> NoteNoNumber]
    ELSE IF parseResult.sum[1] # expectedSum
    THEN [passed |-> FALSE, notes |-> NoteWrongSum(expectedSum, parseResult.sum[1])]
    ELSE [passed |-> TRUE, notes |-> NotePassed]

\* ------------------------------------------------------------------------
\* Test case catalog: generateTestCases.  isValidationTest is absent
\* (undefined, falsy) in the first two test cases.
\* ------------------------------------------------------------------------

generateTestCases ==
    << [name |-> "Test 1: 1 2 3 4 5",
        input |-> <<"1", "\n", "2", "\n", "3", "\n", "4", "\n", "5", "\n">>,
        expectedSum |-> 15, points |-> 25, isValidationTest |-> FALSE],
       [name |-> "Test 2: 10 20 30 40 50",
        input |-> <<"1", "0", "\n", "2", "0", "\n", "3", "0", "\n", "4", "0", "\n", "5", "0", "\n">>,
        expectedSum |-> 150, points |-> 25, isValidationTest |-> FALSE],
       [name |-> "Test 3: input with 0 and a negative - validity check",
        input |-> <<"0", "\n", "-", "3", "\n", "5", "\n", "7", "\n", "8", "\n", "9", "\n", "1", "0", "\n", "1", "1", "\n">>,
        expectedSum |-> 39, points |-> 25, isValidationTest |-> TRUE],
       [name |-> "Test 4: sequence with several wrong attempts",
        input |-> <<"-", "1", "\n", "0", "\n", "-", "2", "\n", "0", "\n", "3", "\n", "4", "\n", "5", "\n", "6", "\n", "7", "\n">>,
        expectedSum |-> 25, points |-> 25, isValidationTest |-> TRUE] >>

\* ------------------------------------------------------------------------
\* The two textual heuristics on the submitted source
\* ------------------------------------------------------------------------

\* The literal lit occurs in s at index i.
MatchAt(s, i, lit) ==
    /\ i >= 1
    /\ i + Len(lit) - 1 <= Len(s)
    /\ SubSeq(s, i, i + Len(lit) - 1) = lit

\* The indices just past a match of the literal at i (none or one).
Lit(s, i, lit) == IF MatchAt(s, i, lit) THEN {i + Len(lit)} ELSE {}

\* The indices just past a match of \s* at i.
StarSpace(s, i) ==
    {m \in i..(Len(s) + 1) : \A p \in i..(m - 1) : IsSpace(s[p])}

\* The indices just past a match of [^)]* at i.
StarNotCloseParen(s, i) ==
    {m \in i..(Len(s) + 1) : \A p \in i..(m - 1) : s[p] # ")"}

\* \b right before the word character s[i]
WordStartsAt(s, i) == i = 1 \/ ~IsWordChar(s[i - 1])

\* \b right after the word character s[j - 1] (j is the index past it)
WordEndsBefore(s, j) == j = Len(s) + 1 \/ ~IsWordChar(s[j])

LoopKeywords == {<<"f", "o", "r">>, <<"w", "h", "i", "l", "e">>, <<"d", "o">>}

\* /\b(for|while|do)\b/.test(codeSource)
hasLoop(codeSource) ==
    \E i \in 1..Len(codeSource) : \E w \in LoopKeywords :
        /\ MatchAt(codeSource, i, w)
        /\ WordStartsAt(codeSource, i)
        /\ WordEndsBefore(codeSource, i + Len(w))

\* op \s* lit at d: the indices just past a match
OpWsLit(s, d, op, lit) ==
    UNION {Lit(s, m, lit) : m \in UNION {StarSpace(s, a) : a \in Lit(s, d, op)}}

\* num \s* op \s* lit at d
NumOpWsLit(s, d, op, lit) ==
    UNION {OpWsLit(s, m, op, lit) :
               m \in UNION {StarSpace(s, a) : a \in Lit(s, d, <<"n", "u", "m">>)}}

\* \bif\s*\([^)]* at i: the indices where the rest of the pattern may start
IfOpenParen(s, i) ==
    IF ~WordStartsAt(s, i) THEN {}
    ELSE UNION {StarNotCloseParen(s, c) :
                    c \in UNION {Lit(s, b, <<"(">>) :
                                     b \in UNION {StarSpace(s, a) :
                                                      a \in Lit(s, i, <<"i", "f">>)}}}

\* (<=\s*0|<\s*1|num\s*<=\s*0|num\s*<\s*1) at d
NonPositiveAlt(s, d) ==
    OpWsLit(s, d, <<"<", "=">>, <<"0">>) \cup OpWsLit(s, d, <<"<">>, <<"1">>)
        \cup NumOpWsLit(s, d, <<"<", "=">>, <<"0">>)
        \cup NumOpWsLit(s, d, <<"<">>, <<"1">>)

\* the two regular expressions tested for hasPositiveCheck
hasPositiveCheck(codeSource) ==
    \/ \E i \in 1..Len(codeSource) : \E d \in IfOpenParen(codeSource, i) :
           NonPositiveAlt(codeSource, d) # {}
    \/ \E i \in 1..Len(codeSource) : \E d \in IfOpenParen(codeSource, i) :
           OpWsLit(codeSource, d, <<">">>, <<"0">>) # {}

\* ------------------------------------------------------------------------
\* Scorer: calculateScore
\* ------------------------------------------------------------------------

RECURSIVE reduceSum(_)
\* Array.prototype.reduce with (sum, x) => sum + x from 0
reduceSum(values) ==
    IF values = <<>> THEN 0 ELSE Head(values) + reduceSum(Tail(values))

\* Variant: the missing positivity guard is not deducted.
qualityScore_LoopOnly(codeSource) ==
    IF ~hasLoop(codeSource) THEN 20 - 10 ELSE 20

\* The quality component: 20, minus 10 per missing pattern, floored at 0.
qualityScore(codeSource) ==
    LET afterLoop == IF ~hasLoop(codeSource) THEN 20 - 10 ELSE 20
        afterCheck == IF ~hasPositiveCheck(codeSource) THEN afterLoop - 10
                      ELSE afterLoop
    IN  IF afterCheck < 0 THEN 0 ELSE afterCheck

\* Variant: Math.floor in place of Math.round.
RoundRatio_Floor(num, den) == num \div den

\* Math.round(num / den) for den > 0: the nearest integer, a half upwards.
RoundRatio(num, den) == (2 * num + den) \div (2 * den)

\* Variant: the result of a failed execution is left out of totalPoints.
calculateScore_SkipsFailed(testResults, codeSource) ==
    IF Len(testResults) > 0 /\ testResults[1].compilationFailed THEN 0
    ELSE
        LET totalPoints ==
                reduceSum([k \in 1..Len(testResults) |->
                               IF testResults[k].compilationFailed THEN 0
                               ELSE testResults[k].points])
            earnedPoints ==
                reduceSum([k \in 1..Len(testResults) |->
                               IF testResults[k].passed THEN testResults[k].points
                               ELSE 0])
            q == qualityScore(codeSource)
            num == IF totalPoints > 0 THEN earnedPoints * 80 + q * totalPoints
                   ELSE q
            den == IF totalPoints > 0 THEN totalPoints ELSE 1
            clampedNum == IF num < 0 THEN 0
                          ELSE IF num > 100 * den THEN 100 * den ELSE num
        IN  RoundRatio(clampedNum, den)

\* functionalScore + qualityScore is the ratio
\* (earnedPoints * 80 + qualityScore * totalPoints) / totalPoints; with the
\* catalog's points it is never within 1/6 of a half, so the rounding of the
\* floating-point sum is that of the exact ratio.
calculateScore(testResults, codeSource) ==
    IF Len(testResults) > 0 /\ testResults[1].compilationFailed THEN 0
    ELSE
        LET totalPoints ==
                reduceSum([k \in 1..Len(testResults) |-> testResults[k].points])
            earnedPoints ==
                reduceSum([k \in 1..Len(testResults) |->
                               IF testResults[k].passed THEN testResults[k].points
                               ELSE 0])
            q == qualityScore(codeSource)
            num == IF totalPoints > 0 THEN earnedPoints * 80 + q * totalPoints
                   ELSE q
            den == IF totalPoints > 0 THEN totalPoints ELSE 1
            clampedNum == IF num < 0 THEN 0
                          ELSE IF num > 100 * den THEN 100 * den ELSE num
        IN  RoundRatio(clampedNum, den)

\* ------------------------------------------------------------------------
\* Feedback synthesizer: generateFeedback.  The messages are stand-ins for
\* the Hebrew texts of the code.
\* ------------------------------------------------------------------------

MsgCompileFailed == "The code does not compile. Fix the compilation errors and try again."

MsgExcellent == "Excellent! Five positive numbers read, validated and summed correctly."

HintWrongSum == "There is a problem computing or printing the sum."

HintValidation == "The code does not handle non-positive numbers properly."

HintNoLoop == "No loop seems to be used to read the numbers."

HintNoPositiveCheck == "A validity check that the number is positive is missing."

MsgGoodWork == "Good work! Most tests passed, a few small points to improve."

MsgProgress == "Nice progress, but some of the tests failed."

MsgNeedsWork == "The code needs more work."

\* t.notes.includes(<the wrong-sum phrase>): only the judge's wrong-sum note
\* has the phrase.
notesIncludeWrongSum(notes) == notes[1] = "WrongSum"

RECURSIVE join(_, _)
\* Array.prototype.join
join(list, sep) ==
    IF list = <<>> THEN ""
    ELSE IF Len(list) = 1 THEN list[1]
    ELSE list[1] \o sep \o join(Tail(list), sep)

\* Variant: the filter of the validation test cases reads a property no
\* result has, and selects none.
generateFeedback_NoValidationTests(testResults, score, codeSource) ==
    IF Len(testResults) > 0 /\ testResults[1].compilationFailed
    THEN MsgCompileFailed
    ELSE IF score = 100 THEN MsgExcellent
    ELSE
        LET anyWrongSum ==
                \E k \in 1..Len(testResults) :
                    ~testResults[k].passed /\ notesIncludeWrongSum(testResults[k].notes)
            f1 == IF anyWrongSum THEN <<HintWrongSum>> ELSE <<>>
            validationTests == SelectSeq(testResults, LAMBDA t : FALSE)
            failedValidation ==
                \E k \in 1..Len(validationTests) : ~validationTests[k].passed
            f2 == IF failedValidation THEN Append(f1, HintValidation) ELSE f1
            f3 == IF ~hasLoop(codeSource) THEN Append(f2, HintNoLoop) ELSE f2
            feedback == IF ~hasPositiveCheck(codeSource)
                        THEN Append(f3, HintNoPositiveCheck) ELSE f3
        IN  IF Len(feedback) = 0
            THEN IF score >= 80 THEN MsgGoodWork
                 ELSE IF score >= 60 THEN MsgProgress
                 ELSE MsgNeedsWork
            ELSE join(feedback, " ")

\* Variant: the validation hint is pushed before the wrong-sum hint.
generateFeedback_ValidationFirst(testResults, score, codeSource) ==
    IF Len(testResults) > 0 /\ testResults[1].compilationFailed
    THEN MsgCompileFailed
    ELSE IF score = 100 THEN MsgExcellent
    ELSE
        LET anyWrongSum ==
                \E k \in 1..Len(testResults) :
                    ~testResults[k].passed /\ notesIncludeWrongSum(testResults[k].notes)
            validationTests == SelectSeq(testResults, LAMBDA t : t.isValidationTest)
            failedValidation ==
                \E k \in 1..Len(validationTests) : ~validationTests[k].passed
            f1 == IF failedValidation THEN <<HintValidation>> ELSE <<>>
            f2 == IF anyWrongSum THEN Append(f1, HintWrongSum) ELSE f1
            f3 == IF ~hasLoop(codeSource) THEN Append(f2, HintNoLoop) ELSE f2
            feedback == IF ~hasPositiveCheck(codeSource)
                        THEN Append(f3, HintNoPositiveCheck) ELSE f3
        IN  IF Len(feedback) = 0
            THEN IF score >= 80 THEN MsgGoodWork
                 ELSE IF score >= 60 THEN MsgProgress
                 ELSE MsgNeedsWork
            ELSE join(feedback, " ")

generateFeedback(testResults, score, codeSource) ==
    IF Len(testResults) > 0 /\ testResults[1].compilationFailed
    THEN MsgCompileFailed
    ELSE IF score = 100 THEN MsgExcellent
    ELSE
        LET anyWrongSum ==
                \E k \in 1..Len(testResults) :
                    ~testResults[k].passed /\ notesIncludeWrongSum(testResults[k].notes)
            f1 == IF anyWrongSum THEN <<HintWrongSum>> ELSE <<>>
            validationTests == SelectSeq(testResults, LAMBDA t : t.isValidationTest)
            failedValidation ==
                \E k \in 1..Len(validationTests) : ~validationTests[k].passed
            f2 == IF failedValidation THEN Append(f1, HintValidation) ELSE f1
            f3 == IF ~hasLoop(codeSource) THEN Append(f2, HintNoLoop) ELSE f2
            feedback == IF ~hasPositiveCheck(codeSource)
                        THEN Append(f3, HintNoPositiveCheck) ELSE f3
        IN  IF Len(feedback) = 0
            THEN IF score >= 80 THEN MsgGoodWork
                 ELSE IF score >= 60 THEN MsgProgress
                 ELSE MsgNeedsWork
            ELSE join(feedback, " ")

\* ------------------------------------------------------------------------
\* Execution adapter: runCProgram.  The engine (JSCPP.run) is outside the
\* program: one call either returns an exit code after writing text to
\* stdout, or throws after writing some text.
\* ------------------------------------------------------------------------

\* (error && error.message) ? error.message : String(error)
errorMsgOf(error) == IF error.message # "" THEN error.message ELSE error.asString

\* the exit code as the string concatenation renders it
exitCodeText(exitCode) == IF exitCode = 0 THEN "0" ELSE "1"

runCProgram(engine) ==
    IF ~engine.threw
    THEN [compiled |-> TRUE,
          compileOutput |-> "Compilation/execution successful (exit code "
                               \o exitCodeText(engine.exitCode) \o ")",
          stdout |-> engine.written,
          stderr |-> ""]
    ELSE [compiled |-> FALSE,
          compileOutput |-> errorMsgOf(engine.error),
          stdout |-> engine.written,
          stderr |-> errorMsgOf(engine.error)]

\* What the engine may do in one call: return after writing one of the
\* texts, or throw one of the errors (nothing written).
EngineOutcomes(stdouts, errors) ==
    {[threw |-> FALSE, exitCode |-> 0, written |-> w, error |-> [message |-> "", asString |-> ""]] :
         w \in stdouts}
    \cup {[threw |-> TRUE, exitCode |-> 0, written |-> <<>>, error |-> e] : e \in errors}

EngineError == [message |-> "syntax error", asString |-> "Error: syntax error"]

\* a thrown empty string: no message, and String(error) is empty
EmptyThrow == [message |-> "", asString |-> ""]

\* ------------------------------------------------------------------------
\* Submissions and engine behaviours explored
\* ------------------------------------------------------------------------

\* Editor contents of the interaction model: empty, a source with a loop and
\* a positivity guard, a source with neither.
EditorTexts ==
    { <<>>,
      <<"d", "o", " ", "i", "f", "(", "x", ">", "0", ")">>,
      <<"x">> }

\* Stdout texts of the interaction model: one, with the sum of test 1.
Stdouts ==
    { <<"s", "u", "m", " ", "=", " ", "1", "5", "\n">> }

\* Editor contents of the grading model.
GradedTexts ==
    { <<" ", " ">>,
      <<" ", "w", "h", "i", "l", "e", "(", "n", "<", "5", ")", " ", "i", "f", " ", "(", "n", "u", "m", " ", "<", "=", " ", "0", ")", " ", "\n">>,
      <<"f", "o", "r">>,
      <<"i", "f", "(", "n", "<", " ", "1", ")">>,
      <<"f", "o", "r", "k", " ", "i", "f", "(", "a", ")", ">", "0">>,
      <<"e", "l", "i", "f", "(", "x", ">", "0", ")", " ", "d", "o">> }

\* Stdout texts of the grading model: their last integers are the expected
\* sums 15, 150, 39, 25, the sums 17 and 0 of the first five inputs of tests
\* 3 and 4, the sums 47 and 22 of all their inputs; one text has no digit.
GradedStdouts ==
    { <<"a", "=", "1", "\n", "s", "u", "m", " ", "=", " ", "1", "5", "\n">>,
      <<"1", "5", "0">>,
      <<"s", "u", "m", " ", "i", "s", " ", "3", "9", "\n">>,
      <<"7", " ", "2", "5">>,
      <<"1", "7", "\n">>,
      <<"x", "-", "0">>,
      <<"s", "u", "m", "=", "4", "7">>,
      <<"2", "2", " ">>,
      <<"n", "o", " ", "s", "u", "m">> }

\* Stdout texts of the feedback model: their last integers are the four
\* expected sums; one text has no digit.
JudgedStdouts ==
    { <<"s", "u", "m", " ", "=", " ", "1", "5", "\n">>,
      <<"1", " ", "1", "5", "0">>,
      <<"3", "9">>,
      <<"-", "3", " ", "2", "5", "\n">>,
      <<"n", "o", " ", "s", "u", "m">> }

\* Every text the engine writes in some model, and nothing written.
AllStdouts == Stdouts \cup GradedStdouts \cup JudgedStdouts \cup {<<>>}

\* ------------------------------------------------------------------------
\* State
\* ------------------------------------------------------------------------

VARIABLES
    jscppLoaded,        \* typeof JSCPP !== 'undefined'
    listenerAttached,   \* the click listener of the run control is attached
    clicks,             \* clicks on the run control handled so far
    dom,                \* the page elements the code reads and writes
    runs,               \* the invocations of handleRunTests, by click number
    callLog,            \* the adapter calls made, by invocation
    call,               \* the arguments of a function applied on its own
    ret                 \* what that function returned

vars == <<jscppLoaded, listenerAttached, clicks, dom, runs, callLog, call, ret>>

RunIds == 1..MaxClicks

\* An invocation of handleRunTests that has not started, or has returned
\* (its locals are gone).  ended tells how it returned; calls, failures and
\* outputs record what the adapter was asked and what the engine did.
NoRun(pc, ended) ==
    [pc |-> pc, ended |-> ended, studentCode |-> <<>>, idx |-> 0, results |-> <<>>,
     result |-> Null, calls |-> 0, failures |-> 0, outputs |-> <<>>,
     score |-> Null, feedback |-> Null]

\* String.prototype.trim
RECURSIVE trimStart(_)
trimStart(s) ==
    IF s # <<>> /\ IsSpace(Head(s)) THEN trimStart(Tail(s)) ELSE s

RECURSIVE trimEnd(_)
trimEnd(s) ==
    IF s # <<>> /\ IsSpace(s[Len(s)]) THEN trimEnd(SubSeq(s, 1, Len(s) - 1)) ELSE s

trim(s) == trimEnd(trimStart(s))

\* ------------------------------------------------------------------------
\* UI functions
\* ------------------------------------------------------------------------

\* Variant: the run control is never disabled.
setUIRunning_NeverDisables(d, isRunning) ==
    [d EXCEPT !.disabled = FALSE, !.loadingHidden = ~isRunning]

setUIRunning(d, isRunning) ==
    [d EXCEPT !.disabled = isRunning, !.loadingHidden = ~isRunning]

clearPreviousResults(d) ==
    [d EXCEPT !.resultsHidden = TRUE, !.compilationOutput = <<"">>, !.rows = <<>>]

MsgCompiledOk == "The code compiled and ran successfully"

MsgErrorFeedback == "An error occurred during the check."

MsgGeneralError == "General error while running the tests: "

MsgDefaultCompileNote == "The code failed to compile"

RECURSIVE escapeNewlines(_)
\* test.input.replace(/\n/g, '\\n')
escapeNewlines(s) ==
    IF s = <<>> THEN <<>>
    ELSE (IF Head(s) = "\n" THEN <<"\\", "n">> ELSE <<Head(s)>>)
             \o escapeNewlines(Tail(s))

scoreClassOf(score) ==
    IF score >= 85 THEN "excellent" ELSE IF score >= 60 THEN "good" ELSE "poor"

displayResults(d, testResults, score, feedback) ==
    [d EXCEPT
        !.resultsHidden = FALSE,
        !.compilationOutput =
            IF Len(testResults) > 0 /\ testResults[1].compilationFailed
            THEN testResults[1].notes ELSE <<MsgCompiledOk>>,
        !.scoreValue = Some(score),
        !.scoreFeedback = feedback,
        !.scoreClass = scoreClassOf(score),
        !.rows = [k \in 1..Len(testResults) |->
                     [index |-> k,
                      name |-> testResults[k].name,
                      input |-> escapeNewlines(testResults[k].input),
                      status |-> IF testResults[k].passed THEN "pass" ELSE "fail",
                      notes |-> testResults[k].notes]]]

\* Variant: the score on display is left as it was.
displayError_KeepsScore(d, errorMessage) ==
    [d EXCEPT
        !.resultsHidden = FALSE,
        !.compilationOutput = <<errorMessage>>,
        !.scoreFeedback = MsgErrorFeedback]

displayError(d, errorMessage) ==
    [d EXCEPT
        !.resultsHidden = FALSE,
        !.compilationOutput = <<errorMessage>>,
        !.scoreValue = Some(0),
        !.scoreFeedback = MsgErrorFeedback]

\* ------------------------------------------------------------------------
\* Test orchestrator: runAllTests, one loop iteration in two parts, the call
\* of the adapter and what follows the await.
\* ------------------------------------------------------------------------

\* The result pushed when the execution failed.
failedResult(testCase, result) ==
    [name |-> testCase.name, input |-> testCase.input,
     expectedSum |-> testCase.expectedSum, points |-> testCase.points,
     isValidationTest |-> testCase.isValidationTest,
     passed |-> FALSE, reportedSum |-> Null,
     notes |-> IF result.compileOutput # "" THEN <<result.compileOutput>>
               ELSE <<MsgDefaultCompileNote>>,
     compilationFailed |-> TRUE]

\* extractSumFromOutput tabulated over the texts the engine writes, so that
\* the text of one execution is parsed once.
parsedOutput == [stdout \in AllStdouts |-> extractSumFromOutput(stdout)]

\* The result pushed when the execution succeeded.
judgedResult(testCase, result) ==
    LET parseResult == parsedOutput[result.stdout]
        comparisonResult == compareSums(testCase.expectedSum, parseResult)
    IN  [name |-> testCase.name, input |-> testCase.input,
         expectedSum |-> testCase.expectedSum, points |-> testCase.points,
         isValidationTest |-> testCase.isValidationTest,
         passed |-> comparisonResult.passed, reportedSum |-> parseResult.sum,
         notes |-> comparisonResult.notes,
         compilationFailed |-> FALSE]

\* const result = await runCProgram(studentCode, testCase.input)
runAllTestsCall(run, engine) ==
    [run EXCEPT !.pc = "await",
                !.result = Some(runCProgram(engine)),
                !.calls = @ + 1,
                !.outputs = Append(@, engine),
                !.failures = @ + (IF engine.threw THEN 1 ELSE 0)]

\* Variant: no break after a failed execution.
runAllTestsResume_NoBreak(run, testCases) ==
    LET testCase == testCases[run.idx]
        result == run.result[1]
    IN  [run EXCEPT !.pc = IF run.idx = Len(testCases) THEN "score" ELSE "loop",
                    !.result = Null,
                    !.idx = @ + 1,
                    !.results = Append(@, IF ~result.compiled
                                          THEN failedResult(testCase, result)
                                          ELSE judgedResult(testCase, result))]

\* The rest of the loop body: push the result; break after a failed
\* execution, return after the last test case.
runAllTestsResume(run, testCases) ==
    LET testCase == testCases[run.idx]
        result == run.result[1]
    IN  IF ~result.compiled
        THEN [run EXCEPT !.pc = "score", !.result = Null,
                         !.results = Append(@, failedResult(testCase, result))]
        ELSE [run EXCEPT !.pc = IF run.idx = Len(testCases) THEN "score" ELSE "loop",
                         !.result = Null,
                         !.idx = @ + 1,
                         !.results = Append(@, judgedResult(testCase, result))]

\* ------------------------------------------------------------------------
\* Initial state: the page is loaded, the engine's script may not be yet.
\* ------------------------------------------------------------------------

MachineIdle ==
    /\ jscppLoaded = FALSE
    /\ listenerAttached = FALSE
    /\ clicks = 0
    /\ dom = [disabled |-> FALSE, loadingHidden |-> TRUE, resultsHidden |-> TRUE,
              compilationOutput |-> <<"">>, scoreValue |-> Null,
              scoreFeedback |-> "", scoreClass |-> "", rows |-> <<>>]
    /\ runs = [r \in RunIds |-> NoRun("idle", "")]
    /\ callLog = <<>>

Init ==
    /\ MachineIdle
    /\ call = Null
    /\ ret = Null

\* ------------------------------------------------------------------------
\* Actions
\* ------------------------------------------------------------------------

\* The engine's script finishes loading.
LoadJSCPP ==
    /\ ~jscppLoaded
    /\ jscppLoaded' = TRUE
    /\ UNCHANGED <<call, ret, listenerAttached, clicks, dom, runs, callLog>>

\* initializeApp: without the engine it only re-schedules itself; with it,
\* it attaches the click listener, once.
initializeApp ==
    /\ ~listenerAttached
    /\ jscppLoaded
    /\ listenerAttached' = TRUE
    /\ UNCHANGED <<call, ret, jscppLoaded, clicks, dom, runs, callLog>>

\* A click reaches the handler: the listener is attached and the control is
\* not disabled.
ClickDelivered(maxClicks) ==
    /\ listenerAttached
    /\ ~dom.disabled
    /\ clicks < maxClicks

\* handleRunTests, the early returns: nothing to run, or no engine.
handleRunTestsRejected(maxClicks, texts) ==
    /\ ClickDelivered(maxClicks)
    /\ \E text \in texts : trim(text) = <<>> \/ ~jscppLoaded
    /\ clicks' = clicks + 1
    /\ UNCHANGED <<call, ret, jscppLoaded, listenerAttached, dom, runs, callLog>>

\* handleRunTests up to the loop of runAllTests.
handleRunTestsStart(maxClicks, texts) ==
    /\ ClickDelivered(maxClicks)
    /\ jscppLoaded
    /\ \E text \in texts :
           /\ trim(text) # <<>>
           /\ runs' = [runs EXCEPT ![clicks + 1] =
                           [NoRun("loop", "") EXCEPT !.studentCode = trim(text),
                                                     !.idx = 1]]
    /\ clicks' = clicks + 1
    /\ dom' = clearPreviousResults(setUIRunning(dom, TRUE))
    /\ UNCHANGED <<call, ret, jscppLoaded, listenerAttached, callLog>>

\* runAllTests calls the adapter for the next test case and awaits.
CallAdapter(r, engines) ==
    /\ runs[r].pc = "loop"
    /\ \E engine \in engines : runs' = [runs EXCEPT ![r] = runAllTestsCall(@, engine)]
    /\ callLog' = Append(callLog, r)
    /\ UNCHANGED <<call, ret, jscppLoaded, listenerAttached, clicks, dom>>

\* The awaited outcome arrives.
ResumeAfterCall(r) ==
    /\ runs[r].pc = "await"
    /\ runs' = [runs EXCEPT ![r] = runAllTestsResume(@, generateTestCases)]
    /\ UNCHANGED <<call, ret, jscppLoaded, listenerAttached, clicks, dom, callLog>>

\* handleRunTests after runAllTests: the score and the feedback.
ScoreRun(r) ==
    /\ runs[r].pc = "score"
    /\ LET score == calculateScore(runs[r].results, runs[r].studentCode)
       IN  runs' = [runs EXCEPT ![r] =
                        [@ EXCEPT !.pc = "display",
                                  !.score = Some(score),
                                  !.feedback =
                                      Some(generateFeedback(runs[r].results, score,
                                                            runs[r].studentCode))]]
    /\ UNCHANGED <<call, ret, jscppLoaded, listenerAttached, clicks, dom, callLog>>

\* displayResults, then the finally clause, then the handler returns.
DisplayRun(r) ==
    /\ runs[r].pc = "display"
    /\ dom' = setUIRunning(displayResults(dom, runs[r].results, runs[r].score[1],
                                          runs[r].feedback[1]), FALSE)
    /\ runs' = [runs EXCEPT ![r] = NoRun("done", "report")]
    /\ UNCHANGED <<call, ret, jscppLoaded, listenerAttached, clicks, callLog>>

InternalError == [message |-> "internal failure", asString |-> "Error: internal failure"]

\* Something is raised inside the try block: the catch clause, then the
\* finally clause, then the handler returns.
CatchError(r) ==
    /\ runs[r].pc \in {"loop", "await", "score", "display"}
    /\ dom' = setUIRunning(displayError(dom, MsgGeneralError \o errorMsgOf(InternalError)),
                           FALSE)
    /\ runs' = [runs EXCEPT ![r] = NoRun("done", "error")]
    /\ UNCHANGED <<call, ret, jscppLoaded, listenerAttached, clicks, callLog>>

\* The steps of one invocation that need no outside event.
RunStep(r, engines) ==
    \/ CallAdapter(r, engines)
    \/ ResumeAfterCall(r)
    \/ ScoreRun(r)
    \/ DisplayRun(r)

\* ------------------------------------------------------------------------
\* Specifications
\* ------------------------------------------------------------------------

\* The interaction model: several clicks, few submissions and outputs.
Next ==
    \/ LoadJSCPP
    \/ initializeApp
    \/ handleRunTestsRejected(MaxClicks, EditorTexts)
    \/ handleRunTestsStart(MaxClicks, EditorTexts)
    \/ \E r \in RunIds : CallAdapter(r, EngineOutcomes(Stdouts, {EngineError}))
    \/ \E r \in RunIds : ResumeAfterCall(r)
    \/ \E r \in RunIds : ScoreRun(r)
    \/ \E r \in RunIds : DisplayRun(r)
    \/ \E r \in RunIds : CatchError(r)

Spec == Init /\ [][Next]_vars

\* The event loop runs every pending continuation of an invocation.
FairSpec ==
    Spec /\ \A r \in RunIds :
                WF_vars(RunStep(r, EngineOutcomes(Stdouts, {EngineError})))

\* The grading model: one grading run, many submissions and outputs.
GradeNext ==
    \/ LoadJSCPP
    \/ initializeApp
    \/ handleRunTestsRejected(1, GradedTexts)
    \/ handleRunTestsStart(1, GradedTexts)
    \/ CallAdapter(1, EngineOutcomes(GradedStdouts, {EngineError, EmptyThrow}))
    \/ ResumeAfterCall(1)
    \/ ScoreRun(1)
    \/ DisplayRun(1)
    \/ CatchError(1)

GradeSpec == Init /\ [][GradeNext]_vars

\* ------------------------------------------------------------------------
\* The output interpreter on its own: every text over a small alphabet.
\* ------------------------------------------------------------------------

ParseAlphabet == {"-", "0", "1", "7", " ", "a"}

ParseTexts == UNION {[1..n -> ParseAlphabet] : n \in 0..MaxLen}

ParseInit ==
    /\ MachineIdle
    /\ call \in {[stdout |-> s] : s \in ParseTexts}
    /\ ret = Null

ApplyExtractSum ==
    /\ ret = Null
    /\ ret' = Some(extractSumFromOutput(call.stdout))
    /\ UNCHANGED <<jscppLoaded, listenerAttached, clicks, dom, runs, callLog, call>>

ParseSpec == ParseInit /\ [][ApplyExtractSum]_vars

\* ------------------------------------------------------------------------
\* The feedback synthesizer on its own: every result sequence runAllTests
\* produces from a set of engine behaviours, with sample scores and sources.
\* ------------------------------------------------------------------------

RECURSIVE runAllTests(_, _)
\* The loop of runAllTests run to its end, the engine doing engines[k] in
\* the k-th call.
runAllTests(run, engines) ==
    IF run.pc = "loop"
    THEN runAllTests(runAllTestsResume(runAllTestsCall(run, engines[run.idx]),
                                       generateTestCases), engines)
    ELSE run.results

ResultSequences ==
    {runAllTests([NoRun("loop", "") EXCEPT !.idx = 1], engines) :
         engines \in [1..Len(generateTestCases) ->
                          EngineOutcomes(JudgedStdouts, {EngineError})]}

\* Scores at and around the bands of the fallback message.
ScoreSamples == {0, 59, 60, 70, 79, 80, 99, 100}

\* Sources with both patterns, a loop only, a guard only, neither.
FeedbackTexts ==
    { <<"d", "o", " ", "i", "f", "(", "x", ">", "0", ")">>,
      <<"f", "o", "r">>,
      <<"i", "f", "(", "n", "<", " ", "1", ")">>,
      <<"x">> }

FeedbackInit ==
    /\ MachineIdle
    /\ call \in {[testResults |-> rs, score |-> sc, codeSource |-> src] :
                     rs \in ResultSequences, sc \in ScoreSamples, src \in FeedbackTexts}
    /\ ret = Null

ApplyGenerateFeedback ==
    /\ ret = Null
    /\ ret' = Some(generateFeedback(call.testResults, call.score, call.codeSource))
    /\ UNCHANGED <<jscppLoaded, listenerAttached, clicks, dom, runs, callLog, call>>

FeedbackSpec == FeedbackInit /\ [][ApplyGenerateFeedback]_vars

\* ------------------------------------------------------------------------
\* The integers a text denotes, stated on the text itself (not by a scan):
\* used to state what the output interpreter and the submissions are
\* expected to produce.
\* ------------------------------------------------------------------------

\* s[a..b] is an optional '-' followed by one or more decimal digits
IsIntegerToken(s, a, b) ==
    /\ 1 <= a /\ a <= b /\ b <= Len(s)
    /\ \/ \A p \in a..b : IsDigit(s[p])
       \/ s[a] = "-" /\ a < b /\ \A p \in (a + 1)..b : IsDigit(s[p])

Spans(s) == (1..Len(s)) \X (1..Len(s))

\* the tokens contained in no other token
MaximalTokens(s) ==
    {t \in Spans(s) :
        /\ IsIntegerToken(s, t[1], t[2])
        /\ \A u \in Spans(s) :
               (IsIntegerToken(s, u[1], u[2]) /\ u[1] <= t[1] /\ t[2] <= u[2]) => u = t}

RECURSIVE Pow10(_)
Pow10(n) == IF n = 0 THEN 1 ELSE 10 * Pow10(n - 1)

RECURSIVE DigitsValue(_, _, _)
\* the positional value of the digits s[a..b]
DigitsValue(s, a, b) ==
    IF a > b THEN 0 ELSE DigitVal(s[a]) * Pow10(b - a) + DigitsValue(s, a + 1, b)

TokenValue(s, t) ==
    IF s[t[1]] = "-" THEN 0 - DigitsValue(s, t[1] + 1, t[2])
    ELSE DigitsValue(s, t[1], t[2])

\* the integers of the maximal tokens, in order of appearance
IntegersIn(s) ==
    LET T == MaximalTokens(s)
    IN  [k \in 1..Cardinality(T) |->
            TokenValue(s, CHOOSE t \in T : Cardinality({u \in T : u[1] < t[1]}) = k - 1)]

\* the last integer of a text, Null when it has none
LastInteger(s) ==
    IF MaximalTokens(s) = {} THEN Null
    ELSE Some(IntegersIn(s)[Cardinality(MaximalTokens(s))])

\* ------------------------------------------------------------------------
\* Claims about the output interpreter (ParseSpec)
\* ------------------------------------------------------------------------

\* C7: for every stdout text, extractSumFromOutput returns as allNumbers the
\* integers of the maximal substrings "optional '-', then digits", in order
\* of appearance, and as sum the last of them; a text without a digit gives
\* an absent sum and no numbers.
C7_LastIntegerWins ==
    ret # Null =>
        /\ Len(ret[1].allNumbers) = Cardinality(MaximalTokens(call.stdout))
        /\ \A k \in 1..Len(ret[1].allNumbers) :
               ret[1].allNumbers[k] = IntegersIn(call.stdout)[k]
        /\ ret[1].sum = LastInteger(call.stdout)
        /\ (\A p \in 1..Len(call.stdout) : ~IsDigit(call.stdout[p]))
               => (ret[1].sum = Null /\ ret[1].allNumbers = <<>>)

\* C7 witness: a text with several integers, a negative one among them, whose
\* last integer differs from its first and is the sum returned.
C7_Witness ==
    /\ ret # Null
    /\ Len(ret[1].allNumbers) >= 2
    /\ ret[1].allNumbers[1] < 0
    /\ ret[1].sum = Some(7)
    /\ ret[1].sum = LastInteger(call.stdout)

\* ------------------------------------------------------------------------
\* Claims about the feedback synthesizer (FeedbackSpec)
\* ------------------------------------------------------------------------

\* (a) a failed result that was executed and reported a number other than
\* the expected one
WrongSumCondition(testResults) ==
    \E k \in 1..Len(testResults) :
        /\ ~testResults[k].passed
        /\ ~testResults[k].compilationFailed
        /\ testResults[k].reportedSum # Null

\* (b) a failed result of a validation test case
ValidationCondition(testResults) ==
    \E k \in 1..Len(testResults) :
        testResults[k].isValidationTest /\ ~testResults[k].passed

\* two texts with one space between them, none next to an empty text
Spaced(x, y) == IF x = "" THEN y ELSE IF y = "" THEN x ELSE x \o " " \o y

\* the hints whose condition holds, in the order (a), (b), (c), (d)
HintsText(a, b, c, d) ==
    Spaced(Spaced(Spaced(IF a THEN HintWrongSum ELSE "",
                         IF b THEN HintValidation ELSE ""),
                  IF c THEN HintNoLoop ELSE ""),
           IF d THEN HintNoPositiveCheck ELSE "")

\* the fallback message of a score
BandedMessage(score) ==
    CASE score >= 80 -> MsgGoodWork
      [] score >= 60 /\ score < 80 -> MsgProgress
      [] score < 60 -> MsgNeedsWork

\* C6: for a result sequence whose first result is not compilationFailed and
\* a score other than 100, generateFeedback returns the hints whose condition
\* holds, space-separated in the order (a) to (d), and, when none holds, the
\* message of the score's band.
C6_HintsOrBand ==
    (ret # Null /\ ~call.testResults[1].compilationFailed /\ call.score # 100) =>
        LET a == WrongSumCondition(call.testResults)
            b == ValidationCondition(call.testResults)
            c == ~hasLoop(call.codeSource)
            d == ~hasPositiveCheck(call.codeSource)
        IN  ret[1] = IF a \/ b \/ c \/ d THEN HintsText(a, b, c, d)
                     ELSE BandedMessage(call.score)

\* C6 witness: score 70, no hint condition holds, the feedback is the
\* "progress" message.
C6_Witness ==
    /\ ret # Null
    /\ ~call.testResults[1].compilationFailed
    /\ call.score = 70
    /\ ~WrongSumCondition(call.testResults)
    /\ ~ValidationCondition(call.testResults)
    /\ hasLoop(call.codeSource) /\ hasPositiveCheck(call.codeSource)
    /\ ret[1] = MsgProgress

\* ------------------------------------------------------------------------
\* Claims about one grading run (GradeSpec).  The run is judged where its
\* results, score and feedback are all computed: right before they are
\* displayed.
\* ------------------------------------------------------------------------

Graded == runs[1]

AtVerdict == Graded.pc = "display"

\* the numbers of a stdin script, as a program reading integers gets them
InputsOf(testCase) == IntegersIn(testCase.input)

RECURSIVE SumFirstPositives(_, _)
\* the sum of the first n positive numbers of a sequence
SumFirstPositives(nums, n) ==
    IF n = 0 \/ nums = <<>> THEN 0
    ELSE IF Head(nums) > 0 THEN Head(nums) + SumFirstPositives(Tail(nums), n - 1)
    ELSE SumFirstPositives(Tail(nums), n)

RECURSIVE SumFirst(_, _)
\* the sum of the first n numbers of a sequence, positive or not
SumFirst(nums, n) ==
    IF n = 0 \/ nums = <<>> THEN 0
    ELSE Head(nums) + SumFirst(Tail(nums), n - 1)

RECURSIVE PointsUpTo(_, _, _)
\* the points of the first k results, of all of them or of the passed ones
PointsUpTo(testResults, k, passedOnly) ==
    IF k = 0 THEN 0
    ELSE PointsUpTo(testResults, k - 1, passedOnly)
             + (IF passedOnly /\ ~testResults[k].passed THEN 0
                ELSE testResults[k].points)

TotalPoints == PointsUpTo(Graded.results, Len(Graded.results), FALSE)

EarnedPoints == PointsUpTo(Graded.results, Len(Graded.results), TRUE)

\* Q of the scoring rule
QualityOf(codeSource) ==
    20 - (IF hasLoop(codeSource) THEN 0 ELSE 10)
       - (IF hasPositiveCheck(codeSource) THEN 0 ELSE 10)

\* the last integer of each stdout text of the grading model
StdoutLastInteger == [w \in GradedStdouts |-> LastInteger(w)]

\* per test case: the sum of the first five positive inputs, of the first
\* five inputs, of all inputs
ReferenceSums ==
    [k \in 1..Len(generateTestCases) |->
        SumFirstPositives(InputsOf(generateTestCases[k]), 5)]

FirstFiveSums ==
    [k \in 1..Len(generateTestCases) |-> SumFirst(InputsOf(generateTestCases[k]), 5)]

AllInputSums ==
    [k \in 1..Len(generateTestCases) |->
        SumFirst(InputsOf(generateTestCases[k]), Len(InputsOf(generateTestCases[k])))]

\* every one of the four executions succeeded
AllExecuted ==
    /\ Len(Graded.outputs) = Len(generateTestCases)
    /\ \A k \in 1..Len(Graded.outputs) : ~Graded.outputs[k].threw

\* C1 (as claimed): in every grading run, if the adapter reports failure for
\* any scenario, the first or a later one, the run has exactly one result,
\* with compilationFailed, the adapter was called once, the score is 0 and
\* the feedback is the compile-failure message.
C1_AnyFailureVoidsRun ==
    (AtVerdict /\ Graded.failures > 0) =>
        /\ Len(Graded.results) = 1
        /\ Graded.results[1].compilationFailed
        /\ Graded.calls = 1
        /\ Graded.score = Some(0)
        /\ Graded.feedback = Some(MsgCompileFailed)

\* the run of a submission that prints, last, the sum of the first five
\* positive inputs of each test case
ReferenceRun ==
    /\ AtVerdict
    /\ AllExecuted
    /\ \A k \in 1..Len(Graded.outputs) :
           StdoutLastInteger[Graded.outputs[k].written] = Some(ReferenceSums[k])

\* C2 (as claimed): a submission that executes on all four test cases and
\* prints the sum of the first five positive inputs passes them all and
\* scores 100, whatever its source text.
C2_ReferenceScores100 ==
    ReferenceRun =>
        /\ \A k \in 1..Len(Graded.results) : Graded.results[k].passed
        /\ Graded.score = Some(100)

\* C2 (amended): such a submission passes all four test cases, with the
\* reported sums 15, 150, 39 and 25, and scores 80 plus 10 for an iteration
\* keyword in its source plus 10 for a positivity guard: 100 only with both.
C2_ReferenceScores80PlusQuality ==
    ReferenceRun =>
        /\ Len(Graded.results) = 4
        /\ \A k \in 1..Len(Graded.results) :
               /\ Graded.results[k].passed
               /\ Graded.results[k].reportedSum = Some(<<15, 150, 39, 25>>[k])
        /\ Graded.score =
               Some(80 + (IF hasLoop(Graded.studentCode) THEN 10 ELSE 0)
                       + (IF hasPositiveCheck(Graded.studentCode) THEN 10 ELSE 0))

\* C2 witness: a reference run of a source with neither pattern, scored 80.
C2_Witness ==
    /\ ReferenceRun
    /\ ~hasLoop(Graded.studentCode)
    /\ ~hasPositiveCheck(Graded.studentCode)
    /\ Graded.score = Some(80)

\* C4: when the first result is not compilationFailed, the score is an
\* integer in 0..100 nearest to F + Q, F = 80 * earned / total points and
\* Q = 20 less 10 per missing pattern, never negative; all passed with both
\* patterns missing gives 80.
C4_ScoreIsRoundedSum ==
    (AtVerdict /\ ~Graded.results[1].compilationFailed) =>
        LET q == QualityOf(Graded.studentCode)
            sc == Graded.score[1]
            gap == sc * TotalPoints - (80 * EarnedPoints + q * TotalPoints)
        IN  /\ sc \in 0..100
            /\ q >= 0
            /\ 2 * gap <= TotalPoints
            /\ 2 * gap >= 0 - TotalPoints
            /\ (EarnedPoints = TotalPoints /\ q = 0) => sc = 80

\* C4 witness: one test case passed out of three results (a later execution
\* failed), full quality: 26.67 + 20 is rounded to 47.
C4_Witness ==
    /\ AtVerdict
    /\ ~Graded.results[1].compilationFailed
    /\ TotalPoints = 75
    /\ EarnedPoints = 25
    /\ QualityOf(Graded.studentCode) = 20
    /\ Graded.score = Some(47)

\* the run of a submission that prints, last, the sum of the inputs it reads
\* (the first five, or all of them), positive or not
NaiveRun ==
    /\ AtVerdict
    /\ AllExecuted
    /\ \/ \A k \in 1..Len(Graded.outputs) :
              StdoutLastInteger[Graded.outputs[k].written] = Some(FirstFiveSums[k])
       \/ \A k \in 1..Len(Graded.outputs) :
              StdoutLastInteger[Graded.outputs[k].written] = Some(AllInputSums[k])

\* the feedback texts that contain a hint: the hints of a choice of
\* conditions in which the hint's condition holds
TextsWithValidationHint ==
    {HintsText(a, TRUE, c, d) : a \in BOOLEAN, c \in BOOLEAN, d \in BOOLEAN}

\* C5: a submission that executes on every test case and prints the sum of
\* the inputs it reads, non-positive ones included, passes test cases 1 and
\* 2, fails 3 and 4, has functional component 40, and its feedback contains
\* the positivity-validation hint.
C5_NaiveSumFailsValidation ==
    NaiveRun =>
        /\ Graded.results[1].passed /\ Graded.results[2].passed
        /\ ~Graded.results[3].passed /\ ~Graded.results[4].passed
        /\ 80 * EarnedPoints = 40 * TotalPoints
        /\ Graded.feedback[1] \in TextsWithValidationHint

\* C5 witness: the submission read five inputs: it printed 17 and 0 for test
\* cases 3 and 4.
C5_Witness ==
    /\ NaiveRun
    /\ Graded.results[3].reportedSum = Some(17)
    /\ Graded.results[4].reportedSum = Some(0)

\* all four test cases executed and passed, and the source has both patterns
PerfectRun ==
    /\ Len(Graded.results) = 4
    /\ \A k \in 1..Len(Graded.results) : Graded.results[k].passed
    /\ hasLoop(Graded.studentCode)
    /\ hasPositiveCheck(Graded.studentCode)

\* C10: the score is 100, and the feedback the congratulation, exactly when
\* all four test cases were executed and passed and the source has both
\* patterns; a run cut short by an execution failure never scores 100.
C10_HundredIffPerfect ==
    AtVerdict =>
        /\ Graded.score = Some(100) <=> PerfectRun
        /\ Graded.feedback = Some(MsgExcellent) <=> PerfectRun
        /\ Graded.failures > 0 => Graded.score # Some(100)

\* C10 witness: a run cut short after passed test cases, of a source with
\* both patterns, scored below 100.
C10_Witness ==
    /\ AtVerdict
    /\ Graded.failures > 0
    /\ Len(Graded.results) = 3
    /\ Graded.results[1].passed /\ Graded.results[2].passed
    /\ hasLoop(Graded.studentCode) /\ hasPositiveCheck(Graded.studentCode)
    /\ Graded.score = Some(73)

\* ------------------------------------------------------------------------
\* Claims about the orchestrator and the click handler (Spec, FairSpec)
\* ------------------------------------------------------------------------

\* the invocation is between its start and its return
InFlight(r) == runs[r].pc \in {"loop", "await", "score", "display"}

\* the adapter calls an invocation has made
CallsOf(r) == Len(SelectSeq(callLog, LAMBDA id : id = r))

\* C3: at every point of runAllTests the results are a prefix of the catalog
\* in catalog order, the adapter calls made are the results plus at most one
\* call in progress, and once an execution has failed no further call is
\* made: the failed call is the last one, and a compilationFailed result can
\* only be the last result.
C3_SequentialPrefix ==
    \A r \in RunIds :
        InFlight(r) =>
            LET run == runs[r]
                n == Len(run.results)
            IN  /\ n <= Len(generateTestCases)
                /\ \A k \in 1..n :
                       /\ run.results[k].name = generateTestCases[k].name
                       /\ run.results[k].input = generateTestCases[k].input
                       /\ run.results[k].expectedSum = generateTestCases[k].expectedSum
                /\ run.calls = CallsOf(r)
                /\ run.calls = n + (IF run.pc = "await" THEN 1 ELSE 0)
                /\ \A k \in 1..(n - 1) : ~run.results[k].compilationFailed
                /\ \A k \in 1..(run.calls - 1) : ~run.outputs[k].threw
                /\ run.failures > 0 =>
                       /\ run.pc # "loop"
                       /\ run.outputs[run.calls].threw
                       /\ run.pc # "await" => run.results[n].compilationFailed

\* C3 witness: runAllTests returns three results, the third one of a failed
\* execution, after three adapter calls.
C3_Witness ==
    \E r \in RunIds :
        /\ runs[r].pc = "score"
        /\ Len(runs[r].results) = 3
        /\ runs[r].results[3].compilationFailed
        /\ runs[r].calls = 3

\* C8: under any sequence of clicks at most one grading run is in flight:
\* while a run is between its start and the display of its outcome the run
\* control is disabled, and the adapter calls of two runs never interleave.
C8_OneRunInFlight ==
    /\ Cardinality({r \in RunIds : InFlight(r)}) <= 1
    /\ \A r \in RunIds : InFlight(r) => dom.disabled
    /\ \A i \in 1..Len(callLog) : \A j \in i..Len(callLog) : \A k \in j..Len(callLog) :
           callLog[i] = callLog[k] => callLog[j] = callLog[i]

\* C8 witness: a second run awaits the adapter after the first run made its
\* calls and returned.
C8_Witness ==
    /\ MaxClicks >= 2
    /\ runs[1].pc = "done"
    /\ runs[2].pc = "await"
    /\ CallsOf(1) >= 1
    /\ CallsOf(2) >= 2
    /\ dom.disabled

\* the step in which invocation r returns shows an outcome: the report of
\* its results, score and feedback, or the error message with score 0 and
\* no result row; the control is enabled again; at most four adapter calls
\* were made
EndsWithOutcome(r) ==
    (runs[r].pc # "done" /\ runs'[r].pc = "done") =>
        /\ ~dom'.disabled
        /\ ~dom'.resultsHidden
        /\ CallsOf(r) <= Len(generateTestCases)
        /\ \/ /\ runs'[r].ended = "report"
              /\ dom'.scoreValue = runs[r].score
              /\ dom'.scoreFeedback = runs[r].feedback[1]
              /\ Len(dom'.rows) = Len(runs[r].results)
              /\ Len(dom'.rows) >= 1
              /\ \A k \in 1..Len(dom'.rows) :
                     /\ dom'.rows[k].name = runs[r].results[k].name
                     /\ dom'.rows[k].notes = runs[r].results[k].notes
                     /\ (dom'.rows[k].status = "pass") = runs[r].results[k].passed
           \/ /\ runs'[r].ended = "error"
              /\ dom'.scoreValue = Some(0)
              /\ dom'.scoreFeedback = MsgErrorFeedback
              /\ dom'.compilationOutput # <<"">>
              /\ dom'.rows = <<>>

\* a failure of the engine is returned to runAllTests as an outcome value:
\* the invocation goes on to the await with compiled = false
FailureIsReturned(r) ==
    (runs[r].pc = "loop" /\ runs'[r].failures > runs[r].failures) =>
        /\ runs'[r].pc = "await"
        /\ ~runs'[r].result[1].compiled
        /\ runs'[r].result[1].compileOutput = runs'[r].result[1].stderr

\* the invocation has returned with a score and an explanation on display
\* and the control enabled
EndedShown(r) ==
    /\ runs[r].pc = "done"
    /\ ~dom.disabled
    /\ ~dom.resultsHidden
    /\ dom.scoreValue # Null
    /\ dom.scoreFeedback # ""

\* C9: every grading run that has started ends, after at most four adapter
\* calls, with a score and an explanation shown, the report or, when
\* something was raised, the error message with score 0 and no report; an
\* engine failure is returned, never raised; the control is enabled
\* afterwards.
C9_RunEndsWithOutcome ==
    /\ [][\A r \in RunIds : EndsWithOutcome(r) /\ FailureIsReturned(r)]_vars
    /\ \A r \in RunIds : InFlight(r) ~> EndedShown(r)

\* C9 witness: a run that made four adapter calls has returned with its
\* report on display and the control enabled.
C9_Witness ==
    /\ runs[1].pc = "done"
    /\ runs[1].ended = "report"
    /\ CallsOf(1) = 4
    /\ EndedShown(1)
    /\ Len(dom.rows) = 4

====
